---- MODULE Spec2Model ----
(***************************************************************************)
(* Authentication / session lifecycle of rpk-backend                      *)
(* (src/routes/userRoutes.js, src/models/User.js, the RefreshToken model). *)
(*                                                                         *)
(* Every route handler is an async function: it runs synchronously up to   *)
(* an `await`, and other requests run while it waits.  One action of the   *)
(* model is one such piece: the awaited operation taking effect, followed  *)
(* by the synchronous code up to the next `await` (or to the response).    *)
(* Spec interleaves the pieces of concurrent requests; SpecSeq runs one    *)
(* request at a time.                                                      *)
(***************************************************************************)
EXTENDS Integers, Sequences, FiniteSets, TLC

VARIABLES
    now,            \* Date.now(), milliseconds
    ticks,          \* number of clock advances so far
    users,          \* table Users: sequence of rows, row i has id i
    refreshTokens,  \* table RefreshTokens: sequence of rows, row i has id i
    mailbox,        \* action tokens delivered by resend.emails.send
    pc,             \* per request slot: the await the handler is suspended at
    req,            \* per request slot: req.body / req.cookies and the handler's locals
    resp,           \* per request slot: the response sent (res.status().json())
    reqLeft,        \* how many more requests may be received
    concLeft,       \* how many more requests may be received while another is running
    redeemed,       \* history: refresh tokens of the refreshes answered 200, in order
    used            \* history: <<operation, action token>> of the verifications and
                    \* resets that updated the user, and of the signups that created
                    \* the user and were then answered 500

vars == <<now, ticks, users, refreshTokens, mailbox, pc, req, resp, reqLeft, concLeft,
          redeemed, used>>

---------------------------------------------------------------------------
(* Bounds of the model *)

MaxTicks == 1
MaxRequests == 3
MaxOverlapRequests == 2
MaxLongRequests == 4
MaxConcurrent == 1
MaxNow == 700000000

\* the clock when the server starts: a day and half a second after the clock's origin
StartMs == 86400500

Procs == {1, 2}
Jumps == {1000, 604800000}

Emails == {"a@b.com", "c@d.com"}
StrongPasswords == {"Passw0rd!", "N3wPass!x"}
WeakPasswords == {"weak"}
ValidPersonalIds == {"12345678901", "10987654321"}
InvalidPersonalIds == {"123"}

---------------------------------------------------------------------------
(* Token codec: jsonwebtoken *)

MsPerSec == 1000
AccessTtl == 900
ActionTtl == 3600
RefreshTtl == 604800
RefreshRowMs == 604800000

JWT_SECRET == "JWT_SECRET"
REFRESH_TOKEN_SECRET == "REFRESH_TOKEN_SECRET"

\* A token string is determined by its secret, its payload and its iat/exp.
\* userId 0 stands for a payload without userId.
NoToken == [secret |-> "", userId |-> 0, email |-> "", iat |-> 0, exp |-> 0]

ForgedToken ==
    [secret |-> "forged", userId |-> 1, email |-> "a@b.com", iat |-> 0, exp |-> 2000000]

\* jwt.sign(payload, secret, {expiresIn}): iat is the clock in whole seconds
JwtSign(userId, email, secret, ttl, t) ==
    [secret |-> secret, userId |-> userId, email |-> email,
     iat |-> t \div MsPerSec, exp |-> (t \div MsPerSec) + ttl]

\* jwt.verify(token, secret): the signature first, then the expiry
JwtVerify(token, secret, t) ==
    IF token.secret # secret THEN "JsonWebTokenError"
    ELSE IF (t \div MsPerSec) >= token.exp THEN "TokenExpiredError"
    ELSE "ok"

---------------------------------------------------------------------------
(* Credential store: the Sequelize models *)

\* bcrypt.hash(password, 8) / bcrypt.compare(password, hash)
BcryptHash(password) == [bcrypt |-> password]
BcryptCompare(password, hash) == hash = BcryptHash(password)

NoUser ==
    [id |-> 0, email |-> "", password |-> BcryptHash(""), isVerified |-> FALSE,
     verificationToken |-> NoToken, personalIdCode |-> ""]

\* User.findOne({ where: { email } })
FindUserByEmail(email) ==
    IF \E i \in 1..Len(users) : users[i].email = email
    THEN users[CHOOSE i \in 1..Len(users) : users[i].email = email]
    ELSE NoUser

\* User.findOne({ where: { id } })
FindUserById(id) ==
    IF id \in 1..Len(users) THEN users[id] ELSE NoUser

\* mutant: the lookup by email alone
FindUserByEmailAndTokenAnyToken(email, token) == FindUserByEmail(email)

\* User.findOne({ where: { email, verificationToken } })
FindUserByEmailAndToken(email, token) ==
    IF \E i \in 1..Len(users) :
          users[i].email = email /\ users[i].verificationToken = token
    THEN users[CHOOSE i \in 1..Len(users) :
                   users[i].email = email /\ users[i].verificationToken = token]
    ELSE NoUser

\* the validators of User.init: isEmail, isNumeric + len [11, 11], passwordValidator
ValidEmail(email) == email \in Emails
ValidPersonalId(pid) == pid \in ValidPersonalIds
PasswordValidator(password) == password \in StrongPasswords

\* the unique constraints of User.init
UniqueViolation(email, pid) ==
    \E i \in 1..Len(users) : users[i].email = email \/ users[i].personalIdCode = pid

\* mutant: the verification token is not stored with the new row
NewUserRowNoToken(email, password, pid, token) ==
    [id |-> Len(users) + 1, email |-> email, password |-> BcryptHash(password),
     isVerified |-> FALSE, verificationToken |-> NoToken, personalIdCode |-> pid]

\* User.create: the row inserted, password hashed by the beforeSave hook
NewUserRow(email, password, pid, token) ==
    [id |-> Len(users) + 1, email |-> email, password |-> BcryptHash(password),
     isVerified |-> FALSE, verificationToken |-> token, personalIdCode |-> pid]

\* mutant: the update writes nothing
SetVerificationTokenNoWrite(id, token) == users

\* user.update({ verificationToken }) of the instance with this id
SetVerificationToken(id, token) ==
    [users EXCEPT ![id].verificationToken = token]

\* mutant: the lookup without the isRevoked filter
FindActiveTokenAnyRow(token) ==
    IF \E i \in 1..Len(refreshTokens) : refreshTokens[i].token = token
    THEN CHOOSE i \in 1..Len(refreshTokens) : refreshTokens[i].token = token
    ELSE 0

\* RefreshToken.findOne({ where: { token, isRevoked: false } }): the row id, 0 if none
FindActiveToken(token) ==
    IF \E i \in 1..Len(refreshTokens) :
          refreshTokens[i].token = token /\ ~refreshTokens[i].isRevoked
    THEN CHOOSE i \in 1..Len(refreshTokens) :
             refreshTokens[i].token = token /\ ~refreshTokens[i].isRevoked
    ELSE 0

\* the unique constraint on RefreshToken.token
TokenExists(token) ==
    \E i \in 1..Len(refreshTokens) : refreshTokens[i].token = token

\* RefreshToken.create: isRevoked defaults to false
NewTokenRow(token, userId, expiresAt) ==
    [token |-> token, userId |-> userId, expiresAt |-> expiresAt, isRevoked |-> FALSE]

\* mutant: the update writes nothing
RevokeRowNoWrite(row) == row

\* mutant: the update flips the flag
RevokeRowToggle(row) == [row EXCEPT !.isRevoked = ~row.isRevoked]

\* savedToken.update({ isRevoked: true })
RevokeRow(row) == [row EXCEPT !.isRevoked = TRUE]

\* new Date() > savedToken.expiresAt
RowExpired(row, t) == t > row.expiresAt

---------------------------------------------------------------------------
(* Requests and responses *)

NoReq ==
    [op |-> "", email |-> "", password |-> "", pid |-> "",
     token |-> NoToken, user |-> NoUser, rowId |-> 0,
     newToken |-> NoToken, accessToken |-> NoToken, expiresAt |-> 0]

\* what the client sent, without the handler's locals
Inputs(r) ==
    [NoReq EXCEPT !.op = r.op, !.email = r.email, !.password = r.password,
                  !.pid = r.pid, !.token = r.token]

\* A response: the status, the message, the access token of the body, the refresh
\* token of the cookie, and the names of the attributes of the body's user object.
NoResp ==
    [status |-> 0, message |-> "", accessToken |-> NoToken, cookie |-> NoToken,
     user |-> {}]

Reply(status, message) ==
    [status |-> status, message |-> message, accessToken |-> NoToken, cookie |-> NoToken,
     user |-> {}]

\* the attributes of a row of table Users
UserAttributes ==
    {"id", "name", "surname", "personalIdCode", "email", "password", "isVerified",
     "verificationToken", "createdAt", "updatedAt"}

\* mutant: the password is not deleted
ToJSONKeepPassword(attributes) == attributes

\* User.prototype.toJSON: { ...this.get() } without password
ToJSON(attributes) == attributes \ {"password"}

\* the user objects that the handlers build field by field
SignupProjection == {"email", "name", "surname", "personalIdCode", "isVerified"}
VerifyProjection == {"email", "isVerified"}
LoginProjection == {"name", "surname", "personalIdCode", "email", "isVerified"}

WithUser(response, attributes) == [response EXCEPT !.user = attributes]

\* the 200 responses of signup and of verifyEmail
SignupReply(message) == WithUser(Reply(200, message), SignupProjection)
VerifiedReply == WithUser(Reply(200, "Email verified successfully"), VerifyProjection)

InFlight(p) == pc[p] \notin {"idle", "done"}

\* Slots are interchangeable: a request takes the lowest slot that is free.  The
\* answered requests that are still shown are forgotten when a request arrives
\* while no other is running, so two answered requests shown together overlapped.
Accept(p) ==
    /\ ~InFlight(p)
    /\ \A q \in Procs : q < p => InFlight(q)
    /\ reqLeft > 0
    /\ reqLeft' = reqLeft - 1
    /\ IF \E q \in Procs : InFlight(q)
       THEN concLeft > 0 /\ concLeft' = concLeft - 1
       ELSE UNCHANGED concLeft

Forget(p, q) == q # p /\ ~InFlight(q) /\ \A o \in Procs \ {p} : ~InFlight(o)

\* a request is received in slot p and runs up to its first await
Receive(p, r, next) ==
    /\ Accept(p)
    /\ req' = [q \in Procs |-> IF q = p THEN r ELSE IF Forget(p, q) THEN NoReq ELSE req[q]]
    /\ pc' = [q \in Procs |-> IF q = p THEN next ELSE IF Forget(p, q) THEN "idle" ELSE pc[q]]
    /\ resp' = [q \in Procs |-> IF q = p \/ Forget(p, q) THEN NoResp ELSE resp[q]]

\* a request is received and answered before any await
ReceiveAndSend(p, r, response) ==
    /\ Accept(p)
    /\ req' = [q \in Procs |-> IF q = p THEN r ELSE IF Forget(p, q) THEN NoReq ELSE req[q]]
    /\ pc' = [q \in Procs |-> IF q = p THEN "done" ELSE IF Forget(p, q) THEN "idle" ELSE pc[q]]
    /\ resp' = [q \in Procs |-> IF q = p THEN response ELSE IF Forget(p, q) THEN NoResp ELSE resp[q]]

\* the handler goes on to its next await
Goto(p, next, r) ==
    /\ pc' = [pc EXCEPT ![p] = next]
    /\ req' = [req EXCEPT ![p] = r]
    /\ UNCHANGED <<resp, reqLeft, concLeft>>

\* the handler sends its response and returns
Send(p, response) ==
    /\ pc' = [pc EXCEPT ![p] = "done"]
    /\ resp' = [resp EXCEPT ![p] = response]
    /\ req' = [req EXCEPT ![p] = Inputs(req[p])]
    /\ UNCHANGED <<reqLeft, concLeft>>

\* The database outlives the process: when the server starts it is empty, or it
\* holds an account that an earlier run registered and verified, with the session
\* that account opened by a login at the clock's origin.
SeedUser ==
    [id |-> 1, email |-> "a@b.com", password |-> BcryptHash("Passw0rd!"),
     isVerified |-> TRUE, verificationToken |-> NoToken,
     personalIdCode |-> "12345678901"]

SeedSession ==
    NewTokenRow(JwtSign(1, "a@b.com", REFRESH_TOKEN_SECRET, RefreshTtl, 0), 1,
                RefreshRowMs)

Store ==
    /\ now = StartMs
    /\ ticks = 0
    /\ \/ users = <<>> /\ refreshTokens = <<>>
       \/ users = <<SeedUser>> /\ refreshTokens = <<SeedSession>>
    /\ mailbox = {}
    /\ pc = [p \in Procs |-> "idle"]
    /\ req = [p \in Procs |-> NoReq]
    /\ resp = [p \in Procs |-> NoResp]
    /\ redeemed = <<>>
    /\ used = {}

\* requests may overlap
Init == Store /\ reqLeft = MaxOverlapRequests /\ concLeft = MaxConcurrent

\* one request at a time
InitSeq == Store /\ reqLeft = MaxRequests /\ concLeft = 0

\* one request at a time, in a longer run
InitSeqLong == Store /\ reqLeft = MaxLongRequests /\ concLeft = 0

\* the clock advances
Tick ==
    /\ ticks < MaxTicks
    /\ \E d \in Jumps :
          /\ now + d <= MaxNow
          /\ now' = now + d
    /\ ticks' = ticks + 1
    /\ UNCHANGED <<users, refreshTokens, mailbox, pc, req, resp, reqLeft, concLeft, redeemed, used>>

---------------------------------------------------------------------------
(* POST /signup *)

SignupInputs ==
    { <<"a@b.com", "Passw0rd!", "12345678901">>,
      <<"c@d.com", "Passw0rd!", "10987654321">>,
      <<"c@d.com", "weak", "123">> }

SignupStart(p) ==
    /\ \E in \in SignupInputs :
          Receive(p, [NoReq EXCEPT !.op = "signup", !.email = in[1],
                                   !.password = in[2], !.pid = in[3]], "su_find")
    /\ UNCHANGED <<now, ticks, users, refreshTokens, mailbox, redeemed, used>>

\* mutant: an unverified existing user does not take the reissue branch
SignupPathAlwaysCreate(existingUser) ==
    IF existingUser.id # 0 /\ existingUser.isVerified THEN "done" ELSE "su_create"

\* if (existingUser) { if (existingUser.isVerified) return 400; ...reissue... } else create
SignupPath(existingUser) ==
    IF existingUser.id # 0 /\ existingUser.isVerified THEN "done"
    ELSE IF existingUser.id # 0 THEN "su_update"
    ELSE "su_create"

\* await User.findOne; then the verified check and jwt.sign
SignupFind(p) ==
    /\ pc[p] = "su_find"
    /\ LET existingUser == FindUserByEmail(req[p].email)
           verificationToken == JwtSign(0, req[p].email, JWT_SECRET, ActionTtl, now)
           path == SignupPath(existingUser)
       IN  IF path = "done"
           THEN Send(p, Reply(400, "Email is already verified"))
           ELSE IF path = "su_update"
           THEN Goto(p, "su_update", [req[p] EXCEPT !.user = existingUser,
                                                    !.newToken = verificationToken])
           ELSE Goto(p, "su_create", [req[p] EXCEPT !.newToken = verificationToken])
    /\ UNCHANGED <<now, ticks, users, refreshTokens, mailbox, redeemed, used>>

\* await existingUser.update({ verificationToken })
SignupUpdate(p) ==
    /\ pc[p] = "su_update"
    /\ users' = SetVerificationToken(req[p].user.id, req[p].newToken)
    /\ Goto(p, "su_resend", req[p])
    /\ UNCHANGED <<now, ticks, refreshTokens, mailbox, redeemed, used>>

\* await User.create: validation, hashing hook, insert under the unique constraints
SignupCreate(p) ==
    /\ pc[p] = "su_create"
    /\ IF ~(ValidEmail(req[p].email) /\ ValidPersonalId(req[p].pid)
              /\ PasswordValidator(req[p].password))
       THEN /\ Send(p, Reply(400, "Validation error"))
            /\ UNCHANGED users
       ELSE IF UniqueViolation(req[p].email, req[p].pid)
       THEN /\ Send(p, Reply(400, "Validation error"))
            /\ UNCHANGED users
       ELSE LET row == NewUserRow(req[p].email, req[p].password, req[p].pid,
                                  req[p].newToken)
            IN  /\ users' = Append(users, row)
                /\ Goto(p, "su_send", [req[p] EXCEPT !.user = row])
    /\ UNCHANGED <<now, ticks, refreshTokens, mailbox, redeemed, used>>

\* resend.emails.send is awaited outside any try block of its own.  The library is
\* not part of the repository: the call delivers the mail, or its promise is
\* rejected (the handler's catch answers 500), or it resolves with an error value
\* that the handler does not inspect (nothing is mailed, the handler goes on).
SendOutcomes == {"delivered", "rejected", "unsent"}

\* await resend.emails.send of the verification link
SignupSend(p) ==
    /\ pc[p] \in {"su_send", "su_resend"}
    /\ \E outcome \in SendOutcomes :
          /\ mailbox' = IF outcome = "delivered" THEN mailbox \cup {req[p].newToken}
                        ELSE mailbox
          /\ used' = IF outcome = "rejected" /\ pc[p] = "su_send"
                     THEN used \cup {<<"signupFailed", req[p].newToken>>}
                     ELSE used
          /\ IF outcome = "rejected"
             THEN Send(p, Reply(500, "Error processing request"))
             ELSE Send(p, SignupReply(IF pc[p] = "su_resend"
                                      THEN "Verification email sent successfully"
                                      ELSE "User registered and verification email sent successfully"))
    /\ UNCHANGED <<now, ticks, users, refreshTokens, redeemed>>

---------------------------------------------------------------------------
(* POST /verify-email *)

\* the token check and jwt.verify run before the first await
VerifyStart(p) ==
    /\ \E token \in mailbox \cup {ForgedToken, NoToken} :
          LET r == [NoReq EXCEPT !.op = "verifyEmail", !.token = token]
              v == JwtVerify(token, JWT_SECRET, now)
          IN  IF token = NoToken
              THEN ReceiveAndSend(p, r, Reply(400, "Verification token is required"))
              ELSE IF v = "TokenExpiredError"
              THEN ReceiveAndSend(p, r, Reply(400, "Verification link has expired"))
              ELSE IF v # "ok"
              THEN ReceiveAndSend(p, r, Reply(500, "Error verifying email"))
              ELSE Receive(p, r, "ve_find")
    /\ UNCHANGED <<now, ticks, users, refreshTokens, mailbox, redeemed, used>>

\* mutant: the already-verified check is missing
VerifyChecksNoVerified(user, token) ==
    IF user.id = 0 THEN "Invalid verification token"
    ELSE IF user.verificationToken # token THEN "Invalid verification token"
    ELSE ""

\* mutant: the comparison with the stored token is missing
VerifyChecksNoMatch(user, token) ==
    IF user.id = 0 THEN "Invalid verification token"
    ELSE IF user.isVerified THEN "Email already verified"
    ELSE ""

\* the three checks after the lookup: the message of the 400 sent, "" if none
VerifyChecks(user, token) ==
    IF user.id = 0 THEN "Invalid verification token"
    ELSE IF user.isVerified THEN "Email already verified"
    ELSE IF user.verificationToken # token THEN "Invalid verification token"
    ELSE ""

\* await User.findOne({ where: { email: decoded.email } }); then the three checks
VerifyFind(p) ==
    /\ pc[p] = "ve_find"
    /\ LET user == FindUserByEmail(req[p].token.email)
           rejection == VerifyChecks(user, req[p].token)
       IN  IF rejection # ""
           THEN Send(p, Reply(400, rejection))
           ELSE Goto(p, "ve_update", [req[p] EXCEPT !.user = user])
    /\ UNCHANGED <<now, ticks, users, refreshTokens, mailbox, redeemed, used>>

\* mutant: the update leaves the stored token in place
MarkVerifiedKeepToken(id) ==
    [users EXCEPT ![id].isVerified = TRUE]

\* user.update({ isVerified: true, verificationToken: null }) of the instance with this id
MarkVerified(id) ==
    [users EXCEPT ![id].isVerified = TRUE, ![id].verificationToken = NoToken]

\* await user.update({ isVerified: true, verificationToken: null })
VerifyUpdate(p) ==
    /\ pc[p] = "ve_update"
    /\ users' = MarkVerified(req[p].user.id)
    /\ used' = used \cup {<<"verifyEmail", req[p].token>>}
    /\ Send(p, VerifiedReply)
    /\ UNCHANGED <<now, ticks, refreshTokens, mailbox, redeemed>>

---------------------------------------------------------------------------
(* generateTokens *)

\* mutant: the expiry date is not moved seven days ahead
GenerateTokensNoShift(user, t) ==
    [accessToken |-> JwtSign(user.id, user.email, JWT_SECRET, AccessTtl, t),
     refreshToken |-> JwtSign(user.id, user.email, REFRESH_TOKEN_SECRET, RefreshTtl, t),
     expiresAt |-> t]

\* the two jwt.sign calls and the expiry date, before the await of RefreshToken.create
GenerateTokens(user, t) ==
    [accessToken |-> JwtSign(user.id, user.email, JWT_SECRET, AccessTtl, t),
     refreshToken |-> JwtSign(user.id, user.email, REFRESH_TOKEN_SECRET, RefreshTtl, t),
     expiresAt |-> t + RefreshRowMs]

\* res.cookie("refreshToken", ...) and the 200 body
TokenReply(message, accessToken, refreshToken) ==
    [status |-> 200, message |-> message, accessToken |-> accessToken,
     cookie |-> refreshToken, user |-> {}]

---------------------------------------------------------------------------
(* POST /login *)

LoginStart(p) ==
    /\ \E email \in Emails, password \in StrongPasswords :
          Receive(p, [NoReq EXCEPT !.op = "login", !.email = email,
                                   !.password = password], "li_find")
    /\ UNCHANGED <<now, ticks, users, refreshTokens, mailbox, redeemed, used>>

\* mutant: the verified check is missing
LoginChecksNoVerified(user) ==
    IF user.id = 0 THEN "Invalid email or password" ELSE ""

\* mutant: an absent user gets a message of its own
LoginChecksUserNotFound(user) ==
    IF user.id = 0 THEN "User not found"
    ELSE IF ~user.isVerified THEN "Please verify your email before logging in"
    ELSE ""

\* the two checks after the lookup: the message of the 400 sent, "" if none
LoginChecks(user) ==
    IF user.id = 0 THEN "Invalid email or password"
    ELSE IF ~user.isVerified THEN "Please verify your email before logging in"
    ELSE ""

\* await User.findOne({ where: { email } }); then the existence and verified checks
LoginFind(p) ==
    /\ pc[p] = "li_find"
    /\ LET user == FindUserByEmail(req[p].email)
           rejection == LoginChecks(user)
       IN  IF rejection # ""
           THEN Send(p, Reply(400, rejection))
           ELSE Goto(p, "li_compare", [req[p] EXCEPT !.user = user])
    /\ UNCHANGED <<now, ticks, users, refreshTokens, mailbox, redeemed, used>>

\* await bcrypt.compare(password, user.password); then generateTokens signs
LoginCompare(p) ==
    /\ pc[p] = "li_compare"
    /\ IF ~BcryptCompare(req[p].password, req[p].user.password)
       THEN Send(p, Reply(400, "Invalid email or password"))
       ELSE LET t == GenerateTokens(req[p].user, now)
            IN  Goto(p, "li_create", [req[p] EXCEPT !.newToken = t.refreshToken,
                                                     !.accessToken = t.accessToken,
                                                     !.expiresAt = t.expiresAt])
    /\ UNCHANGED <<now, ticks, users, refreshTokens, mailbox, redeemed, used>>

\* await RefreshToken.create inside generateTokens; then the cookie and the body
LoginCreate(p) ==
    /\ pc[p] = "li_create"
    /\ IF TokenExists(req[p].newToken)
       THEN /\ Send(p, Reply(500, "Error during login"))
            /\ UNCHANGED refreshTokens
       ELSE /\ refreshTokens' = Append(refreshTokens,
                  NewTokenRow(req[p].newToken, req[p].user.id, req[p].expiresAt))
            /\ Send(p, WithUser(TokenReply("Login successful", req[p].accessToken,
                                           req[p].newToken), LoginProjection))
    /\ UNCHANGED <<now, ticks, users, mailbox, redeemed, used>>

---------------------------------------------------------------------------
(* POST /forgot-password *)

ForgotStart(p) ==
    /\ \E email \in Emails :
          Receive(p, [NoReq EXCEPT !.op = "forgotPassword", !.email = email], "fp_find")
    /\ UNCHANGED <<now, ticks, users, refreshTokens, mailbox, redeemed, used>>

\* await User.findOne({ where: { email } }); then jwt.sign of the reset token
ForgotFind(p) ==
    /\ pc[p] = "fp_find"
    /\ LET user == FindUserByEmail(req[p].email)
       IN  IF user.id = 0
           THEN Send(p, Reply(400,
                   "If an account exists with this email, you will receive a password reset link"))
           ELSE Goto(p, "fp_update",
                     [req[p] EXCEPT !.user = user,
                                    !.newToken = JwtSign(user.id, user.email, JWT_SECRET,
                                                         ActionTtl, now)])
    /\ UNCHANGED <<now, ticks, users, refreshTokens, mailbox, redeemed, used>>

\* await user.update({ verificationToken: resetToken })
ForgotUpdate(p) ==
    /\ pc[p] = "fp_update"
    /\ users' = SetVerificationToken(req[p].user.id, req[p].newToken)
    /\ Goto(p, "fp_send", req[p])
    /\ UNCHANGED <<now, ticks, refreshTokens, mailbox, redeemed, used>>

\* what forgotPassword answers when the send of the reset link has resolved
ForgotSuccess ==
    Reply(200, "If an account exists with this email, you will receive a password reset link")

\* await resend.emails.send of the reset link
ForgotSend(p) ==
    /\ pc[p] = "fp_send"
    /\ \E outcome \in SendOutcomes :
          /\ mailbox' = IF outcome = "delivered" THEN mailbox \cup {req[p].newToken}
                        ELSE mailbox
          /\ IF outcome = "rejected"
             THEN Send(p, Reply(500, "Error processing password reset request"))
             ELSE Send(p, ForgotSuccess)
    /\ UNCHANGED <<now, ticks, users, refreshTokens, redeemed, used>>

---------------------------------------------------------------------------
(* POST /reset-password *)

\* a reset link that was mailed for an account whose row is no longer in the
\* database (the table is shared with its operator; no handler deletes a row)
OrphanToken == JwtSign(9, "e@f.com", JWT_SECRET, ActionTtl, StartMs)

\* the password that a client chooses in a reset: it passes the password policy and
\* is not the one the accounts were registered with
NewPassword == "N3wPass!x"

\* the presence check and jwt.verify run before the first await
ResetStart(p) ==
    /\ \E token \in mailbox \cup {ForgedToken, NoToken, OrphanToken},
          password \in {NewPassword} \cup WeakPasswords :
          LET r == [NoReq EXCEPT !.op = "resetPassword", !.token = token,
                                 !.password = password]
              v == JwtVerify(token, JWT_SECRET, now)
          IN  IF token = NoToken
              THEN ReceiveAndSend(p, r, Reply(400, "Token and new password are required"))
              ELSE IF v = "TokenExpiredError"
              THEN ReceiveAndSend(p, r, Reply(400, "Password reset link has expired"))
              ELSE IF v # "ok"
              THEN ReceiveAndSend(p, r, Reply(500, "Error resetting password"))
              ELSE Receive(p, r, "rp_find")
    /\ UNCHANGED <<now, ticks, users, refreshTokens, mailbox, redeemed, used>>

\* await User.findOne({ where: { email: decoded.email, verificationToken: token } })
ResetFind(p) ==
    /\ pc[p] = "rp_find"
    /\ LET user == FindUserByEmailAndToken(req[p].token.email, req[p].token)
       IN  IF user.id = 0
           THEN Send(p, Reply(400, "Invalid or expired password reset link"))
           ELSE Goto(p, "rp_update", [req[p] EXCEPT !.user = user])
    /\ UNCHANGED <<now, ticks, users, refreshTokens, mailbox, redeemed, used>>

\* mutant: the update marks the user verified as well
SetPasswordAndVerify(id, password) ==
    [users EXCEPT ![id].password = BcryptHash(password),
                  ![id].verificationToken = NoToken,
                  ![id].isVerified = TRUE]

\* user.update({ password, verificationToken: null }) of the instance with this id,
\* the password hashed by the beforeSave hook
SetPassword(id, password) ==
    [users EXCEPT ![id].password = BcryptHash(password),
                  ![id].verificationToken = NoToken]

\* await user.update({ password, verificationToken: null }): the password validator,
\* then the beforeSave hook hashes the changed password
ResetUpdate(p) ==
    /\ pc[p] = "rp_update"
    /\ IF ~PasswordValidator(req[p].password)
       THEN /\ Send(p, Reply(500, "Error resetting password"))
            /\ UNCHANGED <<users, used>>
       ELSE /\ users' = SetPassword(req[p].user.id, req[p].password)
            /\ used' = used \cup {<<"resetPassword", req[p].token>>}
            /\ Goto(p, "rp_send", req[p])
    /\ UNCHANGED <<now, ticks, refreshTokens, mailbox, redeemed>>

\* await resend.emails.send of the confirmation (it carries no token)
ResetSend(p) ==
    /\ pc[p] = "rp_send"
    /\ \E outcome \in SendOutcomes :
          IF outcome = "rejected"
          THEN Send(p, Reply(500, "Error resetting password"))
          ELSE Send(p, Reply(200, "Password has been reset successfully"))
    /\ UNCHANGED <<now, ticks, users, refreshTokens, mailbox, redeemed, used>>

---------------------------------------------------------------------------
(* POST /refresh-token *)

\* the refresh tokens a client can hold: those stored at a login or a refresh
IssuedRefreshTokens == {refreshTokens[i].token : i \in 1..Len(refreshTokens)}

RefreshStart(p) ==
    /\ \E token \in IssuedRefreshTokens \cup {ForgedToken, NoToken} :
          LET r == [NoReq EXCEPT !.op = "refresh", !.token = token]
          IN  IF token = NoToken
              THEN ReceiveAndSend(p, r, Reply(401, "Refresh token is required"))
              ELSE Receive(p, r, "rt_find")
    /\ UNCHANGED <<now, ticks, users, refreshTokens, mailbox, redeemed, used>>

\* await RefreshToken.findOne({ where: { token, isRevoked: false } }); then the
\* expiry check on the row and jwt.verify
RefreshFind(p) ==
    /\ pc[p] = "rt_find"
    /\ LET id == FindActiveToken(req[p].token)
           v == JwtVerify(req[p].token, REFRESH_TOKEN_SECRET, now)
       IN  IF id = 0
           THEN Send(p, Reply(400, "Invalid refresh token"))
           ELSE IF RowExpired(refreshTokens[id], now)
           THEN Goto(p, "rt_expire", [req[p] EXCEPT !.rowId = id])
           ELSE IF v = "TokenExpiredError"
           THEN Send(p, Reply(400, "Refresh token has expired"))
           ELSE IF v # "ok"
           THEN Send(p, Reply(500, "Error refreshing token"))
           ELSE Goto(p, "rt_user", [req[p] EXCEPT !.rowId = id])
    /\ UNCHANGED <<now, ticks, users, refreshTokens, mailbox, redeemed, used>>

\* await savedToken.update({ isRevoked: true }) of the expired row
RefreshExpire(p) ==
    /\ pc[p] = "rt_expire"
    /\ refreshTokens' = [refreshTokens EXCEPT
                            ![req[p].rowId] = RevokeRow(refreshTokens[req[p].rowId])]
    /\ Send(p, Reply(400, "Refresh token has expired"))
    /\ UNCHANGED <<now, ticks, users, mailbox, redeemed, used>>

\* await User.findOne({ where: { id: decoded.userId } }); then generateTokens signs
RefreshFindUser(p) ==
    /\ pc[p] = "rt_user"
    /\ LET user == FindUserById(req[p].token.userId)
           t == GenerateTokens(user, now)
       IN  IF user.id = 0
           THEN Send(p, Reply(400, "User not found"))
           ELSE Goto(p, "rt_create", [req[p] EXCEPT !.user = user,
                                                     !.newToken = t.refreshToken,
                                                     !.accessToken = t.accessToken,
                                                     !.expiresAt = t.expiresAt])
    /\ UNCHANGED <<now, ticks, users, refreshTokens, mailbox, redeemed, used>>

\* The two writes of the rotation are separate statements, not one transaction.
\* Each is applied by the database, or fails (connection lost, statement timeout):
\* the awaited promise is rejected and the handler's catch answers 500.

\* await RefreshToken.create inside generateTokens
RefreshCreate(p) ==
    /\ pc[p] = "rt_create"
    /\ \E written \in BOOLEAN :
          IF ~written \/ TokenExists(req[p].newToken)
          THEN /\ Send(p, Reply(500, "Error refreshing token"))
               /\ UNCHANGED refreshTokens
          ELSE /\ refreshTokens' = Append(refreshTokens,
                     NewTokenRow(req[p].newToken, req[p].user.id, req[p].expiresAt))
               /\ Goto(p, "rt_revoke", req[p])
    /\ UNCHANGED <<now, ticks, users, mailbox, redeemed, used>>

\* await savedToken.update({ isRevoked: true }); then the cookie and the body
RefreshRevoke(p) ==
    /\ pc[p] = "rt_revoke"
    /\ \E written \in BOOLEAN :
          IF written
          THEN /\ refreshTokens' = [refreshTokens EXCEPT
                      ![req[p].rowId] = RevokeRow(refreshTokens[req[p].rowId])]
               /\ redeemed' = Append(redeemed, req[p].token)
               /\ Send(p, TokenReply("New tokens generated successfully",
                                     req[p].accessToken, req[p].newToken))
          ELSE /\ UNCHANGED <<refreshTokens, redeemed>>
               /\ Send(p, Reply(500, "Error refreshing token"))
    /\ UNCHANGED <<now, ticks, users, mailbox, used>>

---------------------------------------------------------------------------
(* GET /me *)

\* the access tokens that generateTokens signed together with a stored refresh token
IssuedAccessTokens ==
    {[refreshTokens[i].token EXCEPT !.secret = JWT_SECRET,
                                    !.exp = refreshTokens[i].token.iat + AccessTtl] :
        i \in 1..Len(refreshTokens)}

\* the authenticateToken middleware: the id of the user that the bearer token proves,
\* 0 when the token does not verify as an access token
AuthenticateToken(token, t) ==
    IF JwtVerify(token, JWT_SECRET, t) = "ok" THEN token.userId ELSE 0

\* the middleware and the check of req.user run before the first await
MeStart(p) ==
    /\ \E token \in IssuedAccessTokens \cup {ForgedToken} :
          LET r == [NoReq EXCEPT !.op = "me", !.token = token]
          IN  IF AuthenticateToken(token, now) = 0
              THEN ReceiveAndSend(p, r, Reply(401, "User not authenticated"))
              ELSE Receive(p, r, "me_find")
    /\ UNCHANGED <<now, ticks, users, refreshTokens, mailbox, redeemed, used>>

\* await User.findOne({ where: { id: userId } }); res.json serialises user with toJSON
MeFind(p) ==
    /\ pc[p] = "me_find"
    /\ LET user == FindUserById(req[p].token.userId)
       IN  Send(p, WithUser(Reply(200, ""),
                            IF user.id # 0 THEN ToJSON(UserAttributes) ELSE {}))
    /\ UNCHANGED <<now, ticks, users, refreshTokens, mailbox, redeemed, used>>

---------------------------------------------------------------------------

Step(p) ==
    \/ SignupStart(p) \/ SignupFind(p) \/ SignupUpdate(p) \/ SignupCreate(p)
    \/ SignupSend(p)
    \/ VerifyStart(p) \/ VerifyFind(p) \/ VerifyUpdate(p)
    \/ LoginStart(p) \/ LoginFind(p) \/ LoginCompare(p) \/ LoginCreate(p)
    \/ ForgotStart(p) \/ ForgotFind(p) \/ ForgotUpdate(p) \/ ForgotSend(p)
    \/ ResetStart(p) \/ ResetFind(p) \/ ResetUpdate(p) \/ ResetSend(p)
    \/ RefreshStart(p) \/ RefreshFind(p) \/ RefreshExpire(p) \/ RefreshFindUser(p)
    \/ RefreshCreate(p) \/ RefreshRevoke(p)
    \/ MeStart(p) \/ MeFind(p)

Next == Tick \/ \E p \in Procs : Step(p)

Spec == Init /\ [][Next]_vars

\* one request at a time: no request is received while another is running
SpecSeq == InitSeq /\ [][Next]_vars

SpecSeqLong == InitSeqLong /\ [][Next]_vars

---------------------------------------------------------------------------
(* Properties *)

Range(f) == {f[i] : i \in 1..Len(f)}

Done(p, op) == pc[p] = "done" /\ req[p].op = op

Invalid == Reply(400, "Invalid refresh token")
Expired == Reply(400, "Refresh token has expired")

\* the rows that hold this refresh token string
RowsOf(token) == {i \in 1..Len(refreshTokens) : refreshTokens[i].token = token}

\* C1: two refresh(T1) whose store steps interleave do not both succeed: exactly one
\* of them is answered 200, the other fails.  (Two answered requests shown together
\* overlapped.)
C1_ExactlyOneSuccess ==
    \A p, q \in Procs :
        (/\ p # q
         /\ Done(p, "refresh") /\ Done(q, "refresh")
         /\ req[p].token = req[q].token)
        => ~(resp[p].status = 200 /\ resp[q].status = 200)

\* C2: in runs where requests do not overlap, no refresh token is redeemed twice, the
\* row of a redeemed token is revoked, and a refresh that presents a token redeemed
\* before is answered 400 Invalid refresh token.
C2_RedeemedOnce ==
    /\ \A i, j \in 1..Len(redeemed) : i # j => redeemed[i] # redeemed[j]
    /\ \A i \in 1..Len(redeemed) :
          \A r \in RowsOf(redeemed[i]) : refreshTokens[r].isRevoked
    /\ \A p \in Procs :
          Done(p, "refresh") /\ req[p].token \in Range(redeemed)
          => \/ resp[p] = Invalid
             \/ resp[p].status = 200 /\ redeemed[Len(redeemed)] = req[p].token

\* a later refresh of a redeemed token has been rejected
C2_Witness ==
    \E p \in Procs :
        Done(p, "refresh") /\ req[p].token \in Range(redeemed) /\ resp[p] = Invalid

\* C3 as stated: every refresh that looks up a token whose row has expiresAt in the
\* past goes on to revoke the row and to answer 400 Refresh token has expired.
C3_ExpiredAlwaysExpiredError ==
    [][\A p \in Procs :
          (/\ pc[p] = "rt_find" /\ pc'[p] # "rt_find"
           /\ \E r \in RowsOf(req[p].token) : RowExpired(refreshTokens[r], now))
          => pc'[p] = "rt_expire"]_vars

\* C3 amended: every refresh that looks up a token whose row is not revoked and has
\* expiresAt in the past goes on to revoke that row, and with that update answers
\* 400 Refresh token has expired.
C3_ExpiredRowRevoked ==
    [][\A p \in Procs :
          /\ (/\ pc[p] = "rt_find" /\ pc'[p] # "rt_find"
              /\ \E r \in RowsOf(req[p].token) :
                    /\ ~refreshTokens[r].isRevoked
                    /\ RowExpired(refreshTokens[r], now))
             => /\ pc'[p] = "rt_expire"
                /\ req'[p].rowId \in RowsOf(req[p].token)
          /\ (pc[p] = "rt_expire" /\ pc'[p] # "rt_expire")
             => /\ resp'[p] = Expired
                /\ pc'[p] = "done"
                /\ refreshTokens'[req[p].rowId].isRevoked]_vars

\* an expired row was presented, the refresh failed as expired and the row is revoked
C3_Witness ==
    \E p \in Procs :
        /\ Done(p, "refresh") /\ resp[p] = Expired
        /\ \E r \in RowsOf(req[p].token) :
              refreshTokens[r].isRevoked /\ RowExpired(refreshTokens[r], now)

\* C4: no step deletes or replaces a refresh-token row, and no step turns isRevoked
\* from true back to false.
C4_RevocationPermanent ==
    [][/\ Len(refreshTokens') >= Len(refreshTokens)
       /\ \A i \in 1..Len(refreshTokens) :
             /\ refreshTokens'[i].token = refreshTokens[i].token
             /\ refreshTokens[i].isRevoked => refreshTokens'[i].isRevoked]_vars

\* a row revoked by rotation, with the row that replaced it
C4_Witness ==
    \E i, j \in 1..Len(refreshTokens) :
        refreshTokens[i].isRevoked /\ ~refreshTokens[j].isRevoked

\* C5: a login that finds its user unverified is answered at once with 400 Please
\* verify your email, carries no token and stores no refresh-token row, whether or
\* not the password matches.
C5_UnverifiedLoginRejected ==
    [][\A p \in Procs :
          (/\ pc[p] = "li_find" /\ pc'[p] # "li_find"
           /\ FindUserByEmail(req[p].email).id # 0
           /\ ~FindUserByEmail(req[p].email).isVerified)
          => /\ pc'[p] = "done"
             /\ resp'[p] = Reply(400, "Please verify your email before logging in")
             /\ refreshTokens' = refreshTokens]_vars

\* an unverified user presented the stored password and was rejected
C5_Witness ==
    \E p \in Procs :
        /\ Done(p, "login")
        /\ resp[p] = Reply(400, "Please verify your email before logging in")
        /\ BcryptCompare(req[p].password, FindUserByEmail(req[p].email).password)

\* the rows of table Users with this email
UsersWith(email) == {i \in 1..Len(users) : users[i].email = email}

\* a token signed by signup for this email: payload { email }, one hour
IsVerificationTokenFor(token, email) ==
    /\ token.secret = JWT_SECRET
    /\ token.userId = 0
    /\ token.email = email
    /\ token.exp = token.iat + ActionTtl

\* C6: with one request at a time, a login of a verified user with a password other
\* than the stored one is answered 400 Invalid email or password, and a login with
\* the stored password is answered 200 with an access token whose claims are the
\* user's id and email.
C6_VerifiedLogin ==
    \A p \in Procs :
        LET user == FindUserByEmail(req[p].email)
        IN  (Done(p, "login") /\ user.id # 0 /\ user.isVerified)
            => IF BcryptCompare(req[p].password, user.password)
               THEN /\ resp[p].status = 200
                    /\ resp[p].accessToken.secret = JWT_SECRET
                    /\ resp[p].accessToken.userId = user.id
                    /\ resp[p].accessToken.email = user.email
               ELSE resp[p] = Reply(400, "Invalid email or password")

\* C7: with one request at a time, once a signup is answered with anything but a 400
\* there is exactly one row with its email, the row is unverified and its
\* verificationToken is an action token for that email.
C7_SignupOneUnverifiedRow ==
    \A p \in Procs :
        (Done(p, "signup") /\ resp[p].status # 400)
        => /\ Cardinality(UsersWith(req[p].email)) = 1
           /\ \A i \in UsersWith(req[p].email) :
                 /\ ~users[i].isVerified
                 /\ IsVerificationTokenFor(users[i].verificationToken, req[p].email)

\* a signup created its user and the mail was delivered
C7_Witness ==
    \E p \in Procs :
        /\ Done(p, "signup")
        /\ resp[p] = SignupReply("User registered and verification email sent successfully")
        /\ \E i \in UsersWith(req[p].email) : users[i].verificationToken \in mailbox

C9_VerifyTwice ==
    [][\A p \in Procs :
          LET token == req[p].token
              user == FindUserByEmail(token.email)
          IN  /\ (pc[p] = "ve_find" /\ pc'[p] # "ve_find")
                 => /\ <<"verifyEmail", token>> \in used
                       => /\ resp'[p] = Reply(400, "Email already verified")
                          /\ users' = users
                    /\ (user.id # 0 /\ ~user.isVerified /\ user.verificationToken = token)
                       => pc'[p] = "ve_update"
              /\ (pc[p] = "ve_update" /\ pc'[p] # "ve_update")
                 => /\ <<"verifyEmail", token>> \notin used
                    /\ resp'[p] = VerifiedReply
                    /\ users'[user.id].isVerified]_vars

\* the token that verified a user was presented again and rejected
C9_Witness ==
    \E p \in Procs :
        /\ Done(p, "verifyEmail")
        /\ <<"verifyEmail", req[p].token>> \in used
        /\ resp[p] = Reply(400, "Email already verified")

\* C10: with one request at a time, a verifyEmail for an unverified user whose stored
\* verificationToken is not the presented token is answered 400 Invalid verification
\* token and changes no user; the update that verifies a user is made only while the
\* presented token is the stored one.
C10_VerifyNeedsStoredToken ==
    [][\A p \in Procs :
          LET token == req[p].token
              user == FindUserByEmail(token.email)
          IN  /\ (/\ pc[p] = "ve_find" /\ pc'[p] # "ve_find"
                  /\ user.id # 0 /\ ~user.isVerified
                  /\ user.verificationToken # token)
                 => /\ resp'[p] = Reply(400, "Invalid verification token")
                    /\ users' = users
              /\ (pc[p] = "ve_update" /\ pc'[p] # "ve_update")
                 => /\ user.id = req[p].user.id
                    /\ user.verificationToken = token]_vars

\* a verification token superseded by a later signup was presented and rejected
C10_Witness ==
    \E p \in Procs :
        /\ Done(p, "verifyEmail")
        /\ resp[p] = Reply(400, "Invalid verification token")
        /\ req[p].token \in mailbox
        /\ \E i \in UsersWith(req[p].token.email) :
              /\ ~users[i].isVerified
              /\ IsVerificationTokenFor(req[p].token, users[i].email)
              /\ IsVerificationTokenFor(users[i].verificationToken, users[i].email)
              /\ users[i].verificationToken.iat > req[p].token.iat

\* C11: no step removes a user row or turns isVerified from true to false; a step that
\* turns a user's isVerified from false to true is the update of a verifyEmail, which
\* is answered 200 with it, and the same step sets that user's verificationToken to
\* null.
C11_VerifiedOnce ==
    [][/\ Len(users') >= Len(users)
       /\ \A i \in 1..Len(users) :
             /\ users[i].isVerified => users'[i].isVerified
             /\ (~users[i].isVerified /\ users'[i].isVerified)
                => /\ users'[i].verificationToken = NoToken
                   /\ \E p \in Procs :
                         /\ pc[p] = "ve_update" /\ req[p].user.id = i
                         /\ pc'[p] = "done"
                         /\ resp'[p] = VerifiedReply]_vars

\* a registered user was verified by the token mailed to them
C11_Witness ==
    \E p \in Procs :
        /\ Done(p, "verifyEmail")
        /\ resp[p] = VerifiedReply
        /\ req[p].token \in mailbox
        /\ \E i \in UsersWith(req[p].token.email) :
              users[i].isVerified /\ users[i].verificationToken = NoToken

\* C12: with one request at a time, a resetPassword whose token passed jwt.verify
\* while no user has the token's email, or while the user with that email stores a
\* different verificationToken, is answered 400 Invalid or expired password reset
\* link and changes no user; the update that changes a password is made only while
\* the presented token is the stored one.
C12_ResetNeedsStoredToken ==
    [][\A p \in Procs :
          LET token == req[p].token
              user == FindUserByEmail(token.email)
          IN  /\ (/\ pc[p] = "rp_find" /\ pc'[p] # "rp_find"
                  /\ (user.id = 0 \/ user.verificationToken # token))
                 => /\ pc'[p] = "done"
                    /\ resp'[p] = Reply(400, "Invalid or expired password reset link")
                    /\ users' = users
              /\ (pc[p] = "rp_update" /\ users' # users)
                 => /\ user.id = req[p].user.id
                    /\ user.verificationToken = token]_vars

\* a reset link superseded by a later forgotPassword was presented and rejected,
\* and the password is still the one stored before
C12_Witness ==
    \E p \in Procs :
        /\ Done(p, "resetPassword")
        /\ resp[p] = Reply(400, "Invalid or expired password reset link")
        /\ req[p].token \in mailbox
        /\ \E i \in UsersWith(req[p].token.email) :
              /\ users[i].verificationToken \in mailbox
              /\ users[i].verificationToken.userId = i
              /\ req[p].token.userId = i
              /\ users[i].verificationToken.iat > req[p].token.iat
              /\ ~BcryptCompare(req[p].password, users[i].password)

\* C13: with one request at a time, a forgotPassword for an email that has no user is
\* answered with the same response as a forgotPassword for an existing user whose
\* send has resolved.
C13_ForgotSameOutcome ==
    \A p \in Procs :
        (Done(p, "forgotPassword") /\ FindUserByEmail(req[p].email).id = 0)
        => resp[p] = ForgotSuccess

\* what login answers when the email has no user
InvalidCredentials == Reply(400, "Invalid email or password")

\* C14 as stated: a login for an email with no user is answered 400 Invalid email or
\* password, and so is a login of any existing user with a password other than the
\* stored one.
C14_SameForAnyUser ==
    [][\A p \in Procs :
          LET user == FindUserByEmail(req[p].email)
          IN  /\ (pc[p] = "li_find" /\ pc'[p] # "li_find" /\ user.id = 0)
                 => pc'[p] = "done" /\ resp'[p] = InvalidCredentials
              /\ (/\ pc[p] = "li_find" /\ pc'[p] = "done" /\ user.id # 0
                  /\ ~BcryptCompare(req[p].password, user.password))
                 => resp'[p] = InvalidCredentials
              /\ (/\ pc[p] = "li_compare" /\ pc'[p] # "li_compare"
                  /\ ~BcryptCompare(req[p].password, req[p].user.password))
                 => pc'[p] = "done" /\ resp'[p] = InvalidCredentials]_vars

\* C14 amended: a login for an email with no user is answered 400 Invalid email or
\* password and stores nothing, and so is a login of an existing verified user with
\* a password other than the stored one: the two responses are the same record.
C14_SameForVerifiedUser ==
    [][\A p \in Procs :
          LET user == FindUserByEmail(req[p].email)
          IN  /\ (pc[p] = "li_find" /\ pc'[p] # "li_find" /\ user.id = 0)
                 => /\ pc'[p] = "done" /\ resp'[p] = InvalidCredentials
                    /\ refreshTokens' = refreshTokens
              /\ (/\ pc[p] = "li_find" /\ pc'[p] # "li_find"
                  /\ user.id # 0 /\ user.isVerified)
                 => pc'[p] = "li_compare" /\ req'[p].user = user
              /\ (/\ pc[p] = "li_compare" /\ pc'[p] # "li_compare"
                  /\ ~BcryptCompare(req[p].password, req[p].user.password))
                 => /\ pc'[p] = "done" /\ resp'[p] = InvalidCredentials
                    /\ refreshTokens' = refreshTokens]_vars

\* two logins answered together, one for an email with no user and one of a verified
\* user with a wrong password, got the same response
C14_Witness ==
    \E p, q \in Procs :
        /\ Done(p, "login") /\ Done(q, "login")
        /\ FindUserByEmail(req[p].email).id = 0
        /\ FindUserByEmail(req[q].email).id # 0
        /\ FindUserByEmail(req[q].email).isVerified
        /\ ~BcryptCompare(req[q].password, FindUserByEmail(req[q].email).password)
        /\ resp[p] = InvalidCredentials
        /\ resp[q] = resp[p]

\* C15: whatever the outcome of the confirmation mail, the step that awaits it leaves
\* the changed password and the cleared verificationToken in the store and answers
\* 200 Password has been reset successfully.
C15_ResetSendBestEffort ==
    [][\A p \in Procs :
          (pc[p] = "rp_send" /\ pc'[p] # "rp_send")
          => /\ users' = users
             /\ BcryptCompare(req[p].password, users'[req[p].user.id].password)
             /\ users'[req[p].user.id].verificationToken = NoToken
             /\ resp'[p] = Reply(200, "Password has been reset successfully")]_vars

\* the signup in slot p repeats a signup that created the user and was then answered
\* 500 because the send was rejected; the user is still unverified
IsSignupRetry(p) ==
    /\ req[p].op = "signup"
    /\ \E u \in used : u[1] = "signupFailed" /\ u[2].email = req[p].email
    /\ \A i \in UsersWith(req[p].email) : ~users[i].isVerified

SignupPcs == {"su_find", "su_update", "su_create", "su_send", "su_resend"}

\* C16 as stated: with one request at a time, the retry of a signup that created the
\* user and then failed is answered with the response of a uniqueness conflict,
\* 400 Validation error.
C16_RetryIsDuplicate ==
    [][\A p \in Procs :
          (pc[p] \in SignupPcs /\ pc'[p] = "done" /\ IsSignupRetry(p))
          => resp'[p] = Reply(400, "Validation error")]_vars

\* C16 amended: with one request at a time, the retry of a signup that created the
\* user and then failed takes the reissue branch: it attempts no create, adds no row,
\* stores the token it signed, and is answered 200 Verification email sent
\* successfully unless the send is rejected again (500); it is never answered 400.
C16_RetryReissues ==
    [][\A p \in Procs :
          (pc[p] \in SignupPcs /\ pc'[p] # pc[p] /\ IsSignupRetry(p))
          => /\ pc[p] # "su_create" /\ pc'[p] # "su_create"
             /\ Len(users') = Len(users)
             /\ pc[p] = "su_find" => pc'[p] = "su_update"
             /\ pc[p] = "su_update"
                => users'[req[p].user.id].verificationToken = req[p].newToken
             /\ pc'[p] = "done"
                => resp'[p] \in {SignupReply("Verification email sent successfully"),
                                 Reply(500, "Error processing request")}]_vars

\* the retry of a failed signup was answered as a success, with one row for the email
C16_Witness ==
    \E p \in Procs :
        /\ Done(p, "signup") /\ IsSignupRetry(p)
        /\ resp[p] = SignupReply("Verification email sent successfully")
        /\ Cardinality(UsersWith(req[p].email)) = 1

\* C17: with one request at a time, when a refresh is answered with a failure from
\* one of the two writes of its rotation, the store holds no row with the refresh
\* token this refresh signed that was not there before the rotation, and the row of
\* the presented token is not revoked.
C17_RotationAllOrNothing ==
    [][\A p \in Procs :
          /\ (pc[p] = "rt_create" /\ pc'[p] = "done")
             => /\ refreshTokens' = refreshTokens
                /\ ~refreshTokens'[req[p].rowId].isRevoked
          /\ (pc[p] = "rt_revoke" /\ pc'[p] = "done" /\ resp'[p].status # 200)
             => /\ \A i \in 1..Len(refreshTokens') :
                      refreshTokens'[i].token # req[p].newToken
                /\ ~refreshTokens'[req[p].rowId].isRevoked]_vars

\* C18: the user object of every response is without the attribute password, and the
\* tokens a response carries are signed tokens (their claims are a user id and an
\* email), never a stored password hash.
C18_NoPasswordInResponse ==
    \A p \in Procs :
        /\ "password" \notin resp[p].user
        /\ \A i \in 1..Len(users) :
              resp[p].accessToken # users[i].password /\ resp[p].cookie # users[i].password

\* a profile read was answered with the user's attributes
C18_Witness ==
    \E p \in Procs :
        /\ Done(p, "me") /\ resp[p].status = 200
        /\ "email" \in resp[p].user
        /\ FindUserById(req[p].token.userId).id # 0

\* C19: with one request at a time, when a refresh is answered 400 Refresh token has
\* expired, every row of the presented token is revoked in the store the refresh
\* leaves behind.
C19_ExpiredAlwaysRevoked ==
    [][\A p \in Procs :
          (/\ pc[p] \in {"rt_find", "rt_expire"}
           /\ pc'[p] = "done" /\ resp'[p] = Expired)
          => \A r \in RowsOf(req[p].token) : refreshTokens'[r].isRevoked]_vars

LoginPcs == {"li_find", "li_compare", "li_create"}

\* C20: the step in which a login is answered 200 appends exactly one refresh-token
\* row: it holds the refresh token of the cookie, is owned by the user with the
\* login's email, is not revoked, and its expiresAt is the clock at which
\* generateTokens ran plus 7 days; no other step of a login, and so no login that is
\* answered with a failure, changes the refresh-token table.
C20_LoginPersistsOneRow ==
    [][\A p \in Procs :
          /\ (pc[p] = "li_compare" /\ pc'[p] = "li_create")
             => req'[p].expiresAt = now + RefreshRowMs
          /\ (pc[p] \in LoginPcs /\ pc'[p] = "done" /\ resp'[p].status = 200)
             => /\ Len(refreshTokens') = Len(refreshTokens) + 1
                /\ SubSeq(refreshTokens', 1, Len(refreshTokens)) = refreshTokens
                /\ LET row == refreshTokens'[Len(refreshTokens')]
                   IN  /\ row.token = resp'[p].cookie
                       /\ row.userId = FindUserByEmail(req[p].email).id
                       /\ row.userId # 0
                       /\ ~row.isRevoked
                       /\ row.expiresAt = req[p].expiresAt
                       /\ row.expiresAt >= StartMs + RefreshRowMs
          /\ (pc[p] \in LoginPcs /\ pc'[p] # pc[p]
                 /\ ~(pc'[p] = "done" /\ resp'[p].status = 200))
             => refreshTokens' = refreshTokens]_vars

\* a login was answered 200 and its row is in the store, expiring 7 days later
C20_Witness ==
    \E p \in Procs :
        /\ Done(p, "login") /\ resp[p].status = 200
        /\ \E r \in RowsOf(resp[p].cookie) :
              /\ ~refreshTokens[r].isRevoked
              /\ refreshTokens[r].userId = FindUserByEmail(req[p].email).id
              /\ refreshTokens[r].expiresAt = now + RefreshRowMs

\* the rows of this user that are not revoked, in a refresh-token table
ActiveRowsOf(table, userId) ==
    {i \in 1..Len(table) : table[i].userId = userId /\ ~table[i].isRevoked}

\* C21: with one request at a time, the create of a refresh appends exactly one row,
\* not revoked and owned by the owner of the presented row, and the revoke of a
\* refresh answered 200 turns exactly the presented row from not revoked to revoked:
\* the first adds one to the non-revoked rows of that user, the second takes one
\* away, and nothing else changes the table in between.
C21_RotationKeepsCount ==
    [][\A p \in Procs :
          LET owner == refreshTokens[req[p].rowId].userId
          IN  /\ (pc[p] = "rt_create" /\ pc'[p] = "rt_revoke")
                 => /\ refreshTokens' = Append(refreshTokens,
                                               refreshTokens'[Len(refreshTokens')])
                    /\ refreshTokens'[Len(refreshTokens')].userId = owner
                    /\ ~refreshTokens'[Len(refreshTokens')].isRevoked
                    /\ Cardinality(ActiveRowsOf(refreshTokens', owner))
                          = Cardinality(ActiveRowsOf(refreshTokens, owner)) + 1
              /\ (pc[p] = "rt_revoke" /\ pc'[p] = "done" /\ resp'[p].status = 200)
                 => /\ ~refreshTokens[req[p].rowId].isRevoked
                    /\ refreshTokens[req[p].rowId].token = req[p].token
                    /\ refreshTokens' = [refreshTokens EXCEPT ![req[p].rowId].isRevoked = TRUE]
                    /\ Cardinality(ActiveRowsOf(refreshTokens', owner))
                          = Cardinality(ActiveRowsOf(refreshTokens, owner)) - 1
              /\ (pc[p] = "rt_revoke" /\ pc'[p] = "rt_revoke")
                 => refreshTokens' = refreshTokens]_vars

\* a refresh was answered 200: the presented row is revoked and the row of the new
\* token, owned by the same user, is the only one of that user that is not revoked
C21_Witness ==
    \E p \in Procs :
        /\ Done(p, "refresh") /\ resp[p].status = 200
        /\ \A r \in RowsOf(req[p].token) : refreshTokens[r].isRevoked
        /\ \E n \in RowsOf(resp[p].cookie) :
              /\ refreshTokens[n].userId = req[p].token.userId
              /\ ActiveRowsOf(refreshTokens, req[p].token.userId) = {n}

\* a token signed by forgotPassword: payload { userId, email }, one hour
IsResetToken(token) ==
    /\ token.secret = JWT_SECRET
    /\ token.userId # 0
    /\ token.exp = token.iat + ActionTtl

\* C22: with one request at a time, the update of a resetPassword leaves the user's
\* verificationToken null, and a resetPassword that presents a forgotPassword token
\* with which a reset has already updated a user is answered 400 Invalid or expired
\* password reset link and changes no user.
C22_ResetTokenSingleUse ==
    [][\A p \in Procs :
          /\ (pc[p] = "rp_update" /\ users' # users)
             => users'[req[p].user.id].verificationToken = NoToken
          /\ (/\ pc[p] = "rp_find" /\ pc'[p] # "rp_find"
              /\ IsResetToken(req[p].token)
              /\ <<"resetPassword", req[p].token>> \in used)
             => /\ pc'[p] = "done"
                /\ resp'[p] = Reply(400, "Invalid or expired password reset link")
                /\ users' = users]_vars

\* a reset has updated the user with this email
WasReset(email) == \E u \in used : u[1] = "resetPassword" /\ u[2].email = email

\* C23: with one request at a time, once a reset has updated a verified user with the
\* new password, the stored password is the hash of the new password, a login with
\* the new password is answered 200 and a login with any other password is answered
\* 400 Invalid email or password.
C23_LoginAfterReset ==
    \A p \in Procs :
        LET user == FindUserByEmail(req[p].email)
        IN  (Done(p, "login") /\ user.id # 0 /\ user.isVerified /\ WasReset(req[p].email))
            => /\ user.password = BcryptHash(NewPassword)
               /\ IF req[p].password = NewPassword
                  THEN resp[p].status = 200
                  ELSE resp[p] = InvalidCredentials

\* C24: a verifyEmail or a resetPassword that presents a token with a bad signature is
\* answered with the handler's token rejection (400 Invalid verification token, 400
\* Invalid or expired password reset link), not with a 500.
C24_BadSignatureRejected ==
    \A p \in Procs :
        /\ (Done(p, "verifyEmail") /\ JwtVerify(req[p].token, JWT_SECRET, now) = "JsonWebTokenError"
              /\ req[p].token # NoToken)
           => resp[p] = Reply(400, "Invalid verification token")
        /\ (Done(p, "resetPassword") /\ JwtVerify(req[p].token, JWT_SECRET, now) = "JsonWebTokenError"
              /\ req[p].token # NoToken)
           => resp[p] = Reply(400, "Invalid or expired password reset link")

\* C25: with one request at a time, the update of a forgotPassword for an unverified
\* user replaces the stored verificationToken, whatever it was, by the reset token
\* it signed, which is no signup token; and a verifyEmail that presents a signup
\* token of an unverified user whose slot holds a reset token is answered 400
\* Invalid verification token and changes no user.
C25_ForgotOverwritesVerification ==
    [][\A p \in Procs :
          /\ (/\ pc[p] = "fp_update" /\ pc'[p] # "fp_update"
              /\ ~users[req[p].user.id].isVerified)
             => /\ users'[req[p].user.id].verificationToken = req[p].newToken
                /\ IsResetToken(req[p].newToken)
                /\ ~IsVerificationTokenFor(req[p].newToken, req[p].email)
                /\ ~users'[req[p].user.id].isVerified
          /\ LET token == req[p].token
                 user == FindUserByEmail(token.email)
             IN  (/\ pc[p] = "ve_find" /\ pc'[p] # "ve_find"
                  /\ user.id # 0 /\ ~user.isVerified
                  /\ IsVerificationTokenFor(token, user.email)
                  /\ IsResetToken(user.verificationToken))
                 => /\ pc'[p] = "done"
                    /\ resp'[p] = Reply(400, "Invalid verification token")
                    /\ users' = users]_vars

\* the verification token mailed by signup was presented after a forgotPassword had
\* put its reset token in the slot, and was rejected; the user is still unverified
C25_Witness ==
    \E p \in Procs :
        /\ Done(p, "verifyEmail")
        /\ resp[p] = Reply(400, "Invalid verification token")
        /\ req[p].token \in mailbox
        /\ IsVerificationTokenFor(req[p].token, req[p].token.email)
        /\ \E i \in UsersWith(req[p].token.email) :
              /\ ~users[i].isVerified
              /\ IsResetToken(users[i].verificationToken)

\* C26: no verifyEmail updates a user with a token that forgotPassword signed, and no
\* resetPassword updates a user with a token that signup signed.
C26_TokensBoundToPurpose ==
    [][\A p \in Procs :
          /\ (pc[p] = "ve_update" /\ pc'[p] # "ve_update")
             => ~IsResetToken(req[p].token)
          /\ (pc[p] = "rp_update" /\ users' # users)
             => ~IsVerificationTokenFor(req[p].token, req[p].token.email)]_vars

\* C27: with one request at a time, whenever a login or a refresh comes to its
\* RefreshToken.create, no stored row holds the refresh token it has signed.
C27_IssuedTokenIsNew ==
    [][\A p \in Procs :
          (pc[p] \in {"li_create", "rt_create"} /\ pc'[p] # pc[p])
          => ~TokenExists(req[p].newToken)]_vars

\* C28: with one request at a time, the steps of a resetPassword leave the
\* refresh-token table as it is, and its update changes one user row only, in
\* password and verificationToken only: the user's id, email, personalIdCode and
\* isVerified stay.
C28_ResetFrame ==
    [][\A p \in Procs :
          (pc[p] \in {"rp_find", "rp_update", "rp_send"} /\ pc'[p] # pc[p])
          => /\ refreshTokens' = refreshTokens
             /\ Len(users') = Len(users)
             /\ pc[p] # "rp_update" => users' = users
             /\ \A i \in 1..Len(users) :
                   /\ i # req[p].user.id => users'[i] = users[i]
                   /\ users'[i].id = users[i].id
                   /\ users'[i].email = users[i].email
                   /\ users'[i].personalIdCode = users[i].personalIdCode
                   /\ users'[i].isVerified = users[i].isVerified]_vars

\* a refresh token stored before a reset of its owner's password was redeemed after it
C28_Witness ==
    \E p \in Procs :
        /\ Done(p, "refresh") /\ resp[p].status = 200
        /\ WasReset(req[p].token.email)
        /\ FindUserById(req[p].token.userId).password = BcryptHash(NewPassword)
        /\ req[p].token = SeedSession.token

\* the step answers the request in slot p with a rejection of the kinds listed: a
\* failed login, verifyEmail or resetPassword, a signup of a verified email, a
\* refresh without token, with an unknown or revoked token, or of an unknown user
RejectedStep(p) ==
    /\ pc[p] # "done" /\ pc'[p] = "done"
    /\ resp'[p].status # 200
    /\ \/ req'[p].op \in {"login", "verifyEmail", "resetPassword"}
       \/ req'[p].op = "signup" /\ resp'[p] = Reply(400, "Email is already verified")
       \/ /\ req'[p].op = "refresh"
          /\ resp'[p] \in {Reply(401, "Refresh token is required"), Invalid,
                            Reply(400, "User not found")}

\* C29: with one request at a time, an operation that is answered with one of the
\* listed rejections has changed no user row and no refresh-token row: the step that
\* answers changes neither table, and the user row the operation had looked up is
\* still as it was found.
C29_RejectedChangesNothing ==
    [][\A p \in Procs :
          RejectedStep(p)
          => /\ users' = users
             /\ refreshTokens' = refreshTokens
             /\ (InFlight(p) /\ req[p].user.id # 0)
                => users'[req[p].user.id] = req[p].user]_vars

====
